---- MODULE Spec2Model ----
(***************************************************************************)
(* Ewoms::Linear::OverlappingBlockVector                                   *)
(* (src/ewoms/linear/overlappingblockvector.hh).                           *)
(*                                                                         *)
(* One process per partition.  Every process owns one overlapping block    *)
(* vector bound to its Overlap descriptor; the processes exchange rows     *)
(* through point-to-point FIFO channels (MpiBuffer send/receive/wait).     *)
(* Blocks are modelled as integers, so sums are exact.                     *)
(***************************************************************************)
EXTENDS Integers, Sequences, FiniteSets, TLC

VARIABLES
    overlap,          \* the Overlap descriptors of the run, read-only
    overlap_,         \* overlap_[p]: what the overlap_ pointer of p's vector holds
    numIndicesSendBuff, \* numIndicesSendBuff[p][q]: the index count p sent to q
    x,                \* x[p]: the rows of p's block vector, row d at x[p][d + 1]
    indicesSendBuff,  \* indicesSendBuff[p][q]: domestic rows p sends to q
    indicesRecvBuff,  \* indicesRecvBuff[p][q]: domestic rows p merges from q
    valuesSendBuff,   \* valuesSendBuff[p][q]: the values last copied for q
    valuesRecvBuff,   \* valuesRecvBuff[p][q]: the values last received from q
    chan,             \* chan[<<q, p>>]: messages in flight from q to p
    pc,               \* pc[p]: the position of p ("idle": in no method)
    peerIt,           \* peerIt[p]: position of peerIt in the ordered peer set
    op,               \* op[p]: the public method p is executing
    callNo,           \* callNo[p]: number of calls p has entered
    script,           \* the sequence of calls that every process issues
    nativeOut,        \* nativeOut[p]: the vector last filled by assignTo
    hist,             \* hist[p]: per call, its argument, entry and return rows
    sendPending,      \* the non-blocking sends that have not completed yet
    inst,             \* inst[v]: the rows and the buffer maps of vector object v
    heap,             \* heap[b]: the value send buffers allocated for vector b
    access,           \* the last buffer access: the vector called, the buffers used
    dofVars,          \* dofVars[d]: priVars and intensiveQuantities per timeIdx
    dofIdxSaved,      \* dofIdxSaved_ of the element context
    intensiveQuantitiesSaved, \* intensiveQuantitiesSaved_ of the element context
    priVarsSaved,     \* priVarsSaved_ of the element context
    ctxLog            \* the last call on the element context and the last save

copyVars == <<inst, heap, access>>

ctxVars == <<dofVars, dofIdxSaved, intensiveQuantitiesSaved, priVarsSaved,
             ctxLog>>

vars == <<overlap, overlap_, numIndicesSendBuff, x, indicesSendBuff,
          indicesRecvBuff, valuesSendBuff, valuesRecvBuff, chan, pc, peerIt,
          op, callNo, script, nativeOut, hist, sendPending, copyVars,
          ctxVars>>

-----------------------------------------------------------------------------
(* Bounds of the model *)

\* largest entry of a block in the initial vectors and in the native vectors
MaxVal == 1

\* number of calls every process issues
MaxCalls == 2

Vals == 0 .. MaxVal

Ranks == {0, 1, 2}

\* the sentinel of "no counterpart" in the index translations
NoIdx == 0 - 1

Ops == {"sync", "syncAdd", "syncAddBorder", "assign", "assignAddBorder", "assignTo"}

-----------------------------------------------------------------------------
(* The Overlap descriptor.  A topology gives, per rank, the global row of   *)
(* every domestic index (dom), the global row of every native index or      *)
(* NoIdx for a native row without domestic counterpart (nat), the rows of   *)
(* the foreign overlap per peer in enumeration order (snd), the peer sets,  *)
(* the master rank of every global row (mst), and the triples <<g, p, q>>   *)
(* for which g is a border row of p shared with q (brd).                    *)

NoRows == [p \in Ranks |-> <<>>]

NoSends == [p \in Ranks |-> [q \in Ranks |-> <<>>]]

\* a single process without peers; native row 1 has no domestic counterpart
TopoSingle ==
    [procs |-> {0},
     dom   |-> [NoRows EXCEPT ![0] = <<4, 9>>],
     nat   |-> [NoRows EXCEPT ![0] = <<9, NoIdx, 4>>],
     snd   |-> NoSends,
     peers |-> [p \in Ranks |-> {}],
     mst   |-> (4 :> 0 @@ 9 :> 0),
     brd   |-> {}]

\* two processes: row 7 is a border row (master 0), row 5 is owned by 0 and
\* shadowed by 1, row 8 is owned by 1 and shadowed by 0
TopoPair ==
    [procs |-> {0, 1},
     dom   |-> [NoRows EXCEPT ![0] = <<5, 7, 8>>, ![1] = <<7, 8, 5>>],
     nat   |-> [NoRows EXCEPT ![0] = <<7, 5>>, ![1] = <<8, 7>>],
     snd   |-> [NoSends EXCEPT ![0][1] = <<5, 7>>, ![1][0] = <<7, 8>>],
     peers |-> [p \in Ranks |-> IF p = 0 THEN {1} ELSE IF p = 1 THEN {0} ELSE {}],
     mst   |-> (5 :> 0 @@ 7 :> 0 @@ 8 :> 1),
     brd   |-> {<<7, 0, 1>>, <<7, 1, 0>>}]

\* three processes share border row 7, whose master is rank 1
TopoTriple ==
    [procs |-> {0, 1, 2},
     dom   |-> [p \in Ranks |-> <<7>>],
     nat   |-> [p \in Ranks |-> <<7>>],
     snd   |-> [p \in Ranks |-> [q \in Ranks |-> IF p = q THEN <<>> ELSE <<7>>]],
     peers |-> [p \in Ranks |-> Ranks \ {p}],
     mst   |-> (7 :> 1),
     brd   |-> {<<7, p, q>> : p, q \in Ranks} \ {<<7, p, p>> : p \in Ranks}]

\* row 7 is a border row of 0 and 1 (master 0); 2 shadows it and lies in the
\* foreign overlap of both 0 and 1; row 2 is interior to 2
TopoShadow ==
    [procs |-> {0, 1, 2},
     dom   |-> [p \in Ranks |-> IF p = 2 THEN <<2, 7>> ELSE <<7>>],
     nat   |-> [p \in Ranks |-> IF p = 2 THEN <<2>> ELSE <<7>>],
     snd   |-> [NoSends EXCEPT ![0][1] = <<7>>, ![1][0] = <<7>>,
                               ![0][2] = <<7>>, ![1][2] = <<7>>],
     peers |-> [p \in Ranks |-> Ranks \ {p}],
     mst   |-> (2 :> 2 @@ 7 :> 0),
     brd   |-> {<<7, 0, 1>>, <<7, 1, 0>>}]

\* row 7 is held by all three (master 0); for 1 it is a border row shared
\* with 0 and an ordinary overlap row with respect to 2
TopoMixed ==
    [procs |-> {0, 1, 2},
     dom   |-> [p \in Ranks |-> <<7>>],
     nat   |-> [p \in Ranks |-> <<7>>],
     snd   |-> [NoSends EXCEPT ![0][1] = <<7>>, ![1][0] = <<7>>,
                               ![0][2] = <<7>>, ![2][1] = <<7>>],
     peers |-> [p \in Ranks |-> Ranks \ {p}],
     mst   |-> (7 :> 0),
     brd   |-> {<<7, 0, 1>>, <<7, 1, 0>>}]

Topologies == {TopoSingle, TopoPair, TopoTriple, TopoShadow, TopoMixed}

numDomestic(p) == Len(overlap.dom[p])

numNative(p) == Len(overlap.nat[p])

domesticToGlobal(p, d) == overlap.dom[p][d + 1]

globalToDomestic(p, g) ==
    IF \E d \in 0 .. numDomestic(p) - 1 : overlap.dom[p][d + 1] = g
    THEN CHOOSE d \in 0 .. numDomestic(p) - 1 : overlap.dom[p][d + 1] = g
    ELSE NoIdx

nativeToDomestic(p, n) ==
    IF overlap.nat[p][n + 1] = NoIdx THEN NoIdx
    ELSE globalToDomestic(p, overlap.nat[p][n + 1])

domesticToNative(p, d) ==
    IF \E n \in 0 .. numNative(p) - 1 : overlap.nat[p][n + 1] = overlap.dom[p][d + 1]
    THEN CHOOSE n \in 0 .. numNative(p) - 1 : overlap.nat[p][n + 1] = overlap.dom[p][d + 1]
    ELSE NoIdx

\* a peer relation that is not symmetric: only higher ranks are peers
peerSetOneWay(p) == {q \in overlap.peers[p] : q > p}

peerSet(p) == overlap.peers[p]

foreignOverlapSize(p, q) == Len(overlap.snd[p][q])

foreignOverlapOffsetToDomesticIdx(p, q, i) == globalToDomestic(p, overlap.snd[p][q][i + 1])

masterRank(p, d) == overlap.mst[domesticToGlobal(p, d)]

isBorderWith(p, d, q) == <<domesticToGlobal(p, d), p, q>> \in overlap.brd

isLocal(p, d) == masterRank(p, d) = p

-----------------------------------------------------------------------------
(* Iteration over the peer set: std::set iterates in ascending rank order.  *)

RECURSIVE Ascending(_)
Ascending(S) ==
    IF S = {} THEN <<>>
    ELSE LET m == CHOOSE a \in S : \A b \in S : a <= b
         IN <<m>> \o Ascending(S \ {m})

\* the iteration when a process counts itself among its peers
PeerSeqWithSelf(p) == Ascending(peerSet(p) \cup {p})

PeerSeq(p) == Ascending(peerSet(p))

thePeer(p) == PeerSeq(p)[peerIt[p]]

-----------------------------------------------------------------------------
(* createBuffers_: the plans every process holds after construction.        *)

\* the global indices p puts into indicesSendBuff_[q] before it sends them
GlobalIndicesFor(p, q) ==
    [i \in 1 .. foreignOverlapSize(p, q) |->
        domesticToGlobal(p, foreignOverlapOffsetToDomesticIdx(p, q, i - 1))]

\* indicesSendBuff_[q] of p after the conversion back to domestic indices
SendPlan(p, q) ==
    [i \in 1 .. foreignOverlapSize(p, q) |-> globalToDomestic(p, GlobalIndicesFor(p, q)[i])]

\* the received indices taken as domestic indices of the sender
RecvPlanOfSender(p, q) ==
    [i \in 1 .. Len(GlobalIndicesFor(q, p)) |-> globalToDomestic(q, GlobalIndicesFor(q, p)[i])]

\* indicesRecvBuff_[q] of p: the indices received from q, made domestic
RecvPlan(p, q) ==
    [i \in 1 .. Len(GlobalIndicesFor(q, p)) |-> globalToDomestic(p, GlobalIndicesFor(q, p)[i])]

ZeroBuf(n) == [i \in 1 .. n |-> 0]

\* the count taken from the peer's foreign overlap instead of one's own
CountBufOfPeer(p, q) == IF q \in peerSet(p) THEN <<foreignOverlapSize(q, p)>> ELSE <<>>

\* numIndicesSendBuff_[q] of p: one element, the number of indices sent
CountBuf(p, q) == IF q \in peerSet(p) THEN <<foreignOverlapSize(p, q)>> ELSE <<>>

-----------------------------------------------------------------------------
(* The per-row merge loops of the three receive routines.  Each takes the   *)
(* rows xs of process p, the receive indices idx for peer q and the         *)
(* received values, and visits the positions j, j + 1, ... in order.        *)

\* receiveFromMaster_ without the test of the sender's master rank
RECURSIVE receiveFromAnyLoop(_, _, _, _, _, _)
receiveFromAnyLoop(p, q, xs, idx, values, j) ==
    IF j > Len(idx) THEN xs
    ELSE receiveFromAnyLoop(p, q, [xs EXCEPT ![idx[j] + 1] = values[j]],
                            idx, values, j + 1)

RECURSIVE receiveFromMasterLoop(_, _, _, _, _, _)
receiveFromMasterLoop(p, q, xs, idx, values, j) ==
    IF j > Len(idx) THEN xs
    ELSE LET domRowIdx == idx[j]
             ys == IF masterRank(p, domRowIdx) = q
                   THEN [xs EXCEPT ![domRowIdx + 1] = values[j]]
                   ELSE xs
         IN receiveFromMasterLoop(p, q, ys, idx, values, j + 1)

\* receiveAddBorder_ deciding by a per-row border flag instead of per peer
RECURSIVE receiveAddBorderRowFlagLoop(_, _, _, _, _, _)
receiveAddBorderRowFlagLoop(p, q, xs, idx, values, j) ==
    IF j > Len(idx) THEN xs
    ELSE LET domRowIdx == idx[j]
             ys == IF \E r \in Ranks : isBorderWith(p, domRowIdx, r)
                   THEN [xs EXCEPT ![domRowIdx + 1] = @ + values[j]]
                   ELSE [xs EXCEPT ![domRowIdx + 1] = values[j]]
         IN receiveAddBorderRowFlagLoop(p, q, ys, idx, values, j + 1)

RECURSIVE receiveAddBorderLoop(_, _, _, _, _, _)
receiveAddBorderLoop(p, q, xs, idx, values, j) ==
    IF j > Len(idx) THEN xs
    ELSE LET domRowIdx == idx[j]
             ys == IF isBorderWith(p, domRowIdx, q)
                   THEN [xs EXCEPT ![domRowIdx + 1] = @ + values[j]]
                   ELSE [xs EXCEPT ![domRowIdx + 1] = values[j]]
         IN receiveAddBorderLoop(p, q, ys, idx, values, j + 1)

\* receiveAdd_ adding on border rows only and overwriting the other rows
RECURSIVE receiveAddOnBorderLoop(_, _, _, _, _, _)
receiveAddOnBorderLoop(p, q, xs, idx, values, j) ==
    IF j > Len(idx) THEN xs
    ELSE LET domRowIdx == idx[j]
             ys == IF isBorderWith(p, domRowIdx, q)
                   THEN [xs EXCEPT ![domRowIdx + 1] = @ + values[j]]
                   ELSE [xs EXCEPT ![domRowIdx + 1] = values[j]]
         IN receiveAddOnBorderLoop(p, q, ys, idx, values, j + 1)

RECURSIVE receiveAddLoop(_, _, _, _, _, _)
receiveAddLoop(p, q, xs, idx, values, j) ==
    IF j > Len(idx) THEN xs
    ELSE LET domRowIdx == idx[j]
         IN receiveAddLoop(p, q, [xs EXCEPT ![domRowIdx + 1] = @ + values[j]],
                           idx, values, j + 1)

\* the local copy step taking native index 0 for the sentinel as well
localCopyOffByOne(p, nativeBlockVector) ==
    [d \in 1 .. numDomestic(p) |->
        LET nativeRowIdx == domesticToNative(p, d - 1)
        IN IF nativeRowIdx <= 0 THEN 0 ELSE nativeBlockVector[nativeRowIdx + 1]]

\* the rows of p after the local copy step of assign / assignAddBorder
localCopy(p, nativeBlockVector) ==
    [d \in 1 .. numDomestic(p) |->
        LET nativeRowIdx == domesticToNative(p, d - 1)
        IN IF nativeRowIdx < 0 THEN 0 ELSE nativeBlockVector[nativeRowIdx + 1]]

\* assignTo taking domestic index 0 for the sentinel as well
projectionOffByOne(p, xs) ==
    [n \in 1 .. numNative(p) |->
        LET domRowIdx == nativeToDomestic(p, n - 1)
        IN IF domRowIdx <= 0 THEN 0 ELSE xs[domRowIdx + 1]]

\* the native vector that assignTo produces from the rows xs of p
projection(p, xs) ==
    [n \in 1 .. numNative(p) |->
        LET domRowIdx == nativeToDomestic(p, n - 1)
        IN IF domRowIdx < 0 THEN 0 ELSE xs[domRowIdx + 1]]

\* a send routine whose message depends on the method that calls it
entriesForByMethod(p, q) ==
    [i \in 1 .. Len(indicesSendBuff[p][q]) |->
        IF op[p] = "syncAdd" /\ ~isBorderWith(p, indicesSendBuff[p][q][i], q)
        THEN 0
        ELSE x[p][indicesSendBuff[p][q][i] + 1]]

\* a send routine that ships the whole vector instead of the planned rows
entriesForAllRows(p, q) == x[p]

\* the values sendEntries_ copies into valuesSendBuff_[q]
entriesFor(p, q) ==
    [i \in 1 .. Len(indicesSendBuff[p][q]) |-> x[p][indicesSendBuff[p][q][i] + 1]]

-----------------------------------------------------------------------------
(* Initial state: every process has constructed its vector.  The rows of a  *)
(* freshly constructed vector hold arbitrary values.                        *)

\* no vector has been copied
NoCopies ==
    /\ inst = <<>>
    /\ heap = <<>>
    /\ access = <<>>

\* no element context is in use
NoContext ==
    /\ dofVars = <<>>
    /\ dofIdxSaved = NoIdx
    /\ intensiveQuantitiesSaved = <<>>
    /\ priVarsSaved = <<>>
    /\ ctxLog = <<>>

Init ==
    /\ overlap \in Topologies
    /\ overlap_ = [p \in Ranks |-> "descriptor"]
    /\ numIndicesSendBuff = [p \in Ranks |-> [q \in Ranks |-> CountBuf(p, q)]]
    /\ x \in [Ranks -> UNION {[1 .. n -> Vals] : n \in 0 .. 3}]
    /\ \A p \in Ranks : Len(x[p]) = numDomestic(p)
    /\ indicesSendBuff = [p \in Ranks |-> [q \in Ranks |-> SendPlan(p, q)]]
    /\ indicesRecvBuff = [p \in Ranks |-> [q \in Ranks |-> RecvPlan(p, q)]]
    /\ valuesSendBuff = [p \in Ranks |-> [q \in Ranks |-> ZeroBuf(Len(SendPlan(p, q)))]]
    /\ valuesRecvBuff = [p \in Ranks |-> [q \in Ranks |-> ZeroBuf(Len(RecvPlan(p, q)))]]
    /\ chan = [c \in Ranks \X Ranks |-> <<>>]
    /\ pc = [p \in Ranks |-> "idle"]
    /\ peerIt = [p \in Ranks |-> 1]
    /\ op = [p \in Ranks |-> "none"]
    /\ callNo = [p \in Ranks |-> 0]
    /\ script = <<>>
    /\ nativeOut = [p \in Ranks |-> <<>>]
    /\ hist = [p \in Ranks |-> <<>>]
    /\ sendPending = {}
    /\ NoCopies
    /\ NoContext

-----------------------------------------------------------------------------
(* Calls.  All processes run the same program: the first process to enter   *)
(* its k-th call chooses the method, the others follow the script.          *)

Enter(p, o) ==
    /\ p \in overlap.procs
    /\ pc[p] = "idle"
    /\ callNo[p] < MaxCalls
    /\ IF callNo[p] < Len(script)
       THEN o = script[callNo[p] + 1] /\ script' = script
       ELSE script' = Append(script, o)
    /\ callNo' = [callNo EXCEPT ![p] = @ + 1]

\* a method that goes to its receive loop without having sent anything
StartSyncReceiveFirst(p, o, arg, xs) ==
    /\ overlap_[p] = "descriptor"
    /\ x' = [x EXCEPT ![p] = xs]
    /\ op' = [op EXCEPT ![p] = o]
    /\ pc' = [pc EXCEPT ![p] = IF PeerSeq(p) = <<>> THEN "wait" ELSE "recv"]
    /\ peerIt' = [peerIt EXCEPT ![p] = 1]
    /\ hist' = [hist EXCEPT ![p] =
                   Append(@, [op |-> o, arg |-> arg, pre |-> xs, post |-> <<>>,
                              out |-> <<>>, returned |-> FALSE])]
    /\ UNCHANGED <<overlap, overlap_, numIndicesSendBuff, indicesSendBuff,
                   indicesRecvBuff, valuesSendBuff, valuesRecvBuff, chan,
                   nativeOut>>

\* entering the send loop of sync / syncAdd / syncAddBorder with rows xs
StartSync(p, o, arg, xs) ==
    /\ overlap_[p] = "descriptor"
    /\ x' = [x EXCEPT ![p] = xs]
    /\ op' = [op EXCEPT ![p] = o]
    /\ pc' = [pc EXCEPT ![p] = IF PeerSeq(p) = <<>> THEN "wait" ELSE "send"]
    /\ peerIt' = [peerIt EXCEPT ![p] = 1]
    /\ hist' = [hist EXCEPT ![p] =
                   Append(@, [op |-> o, arg |-> arg, pre |-> xs, post |-> <<>>,
                              out |-> <<>>, returned |-> FALSE])]
    /\ UNCHANGED <<overlap, overlap_, numIndicesSendBuff,
                   indicesSendBuff, indicesRecvBuff, valuesSendBuff,
                   valuesRecvBuff, chan, nativeOut>>

sync(p) == Enter(p, "sync") /\ StartSync(p, "sync", <<>>, x[p])

syncAdd(p) == Enter(p, "syncAdd") /\ StartSync(p, "syncAdd", <<>>, x[p])

syncAddBorder(p) == Enter(p, "syncAddBorder") /\ StartSync(p, "syncAddBorder", <<>>, x[p])

assign(p) ==
    /\ Enter(p, "assign")
    /\ \E nativeBlockVector \in [1 .. numNative(p) -> Vals] :
          StartSync(p, "assign", nativeBlockVector, localCopy(p, nativeBlockVector))

assignAddBorder(p) ==
    /\ Enter(p, "assignAddBorder")
    /\ \E nativeBlockVector \in [1 .. numNative(p) -> Vals] :
          StartSync(p, "assignAddBorder", nativeBlockVector,
                    localCopy(p, nativeBlockVector))

assignTo(p) ==
    /\ Enter(p, "assignTo")
    /\ overlap_[p] = "descriptor"
    /\ nativeOut' = [nativeOut EXCEPT ![p] = projection(p, x[p])]
    /\ hist' = [hist EXCEPT ![p] =
                   Append(@, [op |-> "assignTo", arg |-> <<>>, pre |-> x[p],
                              post |-> x[p], out |-> projection(p, x[p]),
                              returned |-> TRUE])]
    /\ UNCHANGED <<overlap, overlap_, numIndicesSendBuff,
                   x, indicesSendBuff, indicesRecvBuff, valuesSendBuff,
                   valuesRecvBuff, chan, pc, peerIt, op>>

-----------------------------------------------------------------------------
(* The steps of a synchronization call. *)

\* one loop that sends to a peer and receives from it before the next peer
AdvancePeerByPeer(p, nextPhase) ==
    IF nextPhase = "recv"
    THEN /\ peerIt' = peerIt
         /\ pc' = [pc EXCEPT ![p] = "recv"]
    ELSE IF peerIt[p] < Len(PeerSeq(p))
         THEN /\ peerIt' = [peerIt EXCEPT ![p] = @ + 1]
              /\ pc' = [pc EXCEPT ![p] = "send"]
         ELSE /\ peerIt' = [peerIt EXCEPT ![p] = 1]
              /\ pc' = [pc EXCEPT ![p] = nextPhase]

\* the position after the body of a peer loop: the next peer, or the next phase
Advance(p, nextPhase) ==
    IF peerIt[p] < Len(PeerSeq(p))
    THEN /\ peerIt' = [peerIt EXCEPT ![p] = @ + 1]
         /\ pc' = pc
    ELSE /\ peerIt' = [peerIt EXCEPT ![p] = 1]
         /\ pc' = [pc EXCEPT ![p] = nextPhase]

\* a transport that hands over the newest message of a pair first
sendEntriesNewestFirst_(p) ==
    /\ pc[p] = "send"
    /\ LET q == thePeer(p)
           values == entriesFor(p, q)
       IN /\ valuesSendBuff' = [valuesSendBuff EXCEPT ![p][q] = values]
          /\ chan' = [chan EXCEPT ![<<p, q>>] = <<values>> \o @]
    /\ Advance(p, "recv")
    /\ UNCHANGED <<overlap, overlap_, numIndicesSendBuff, x, indicesSendBuff,
                   indicesRecvBuff, valuesRecvBuff, op, callNo, script,
                   nativeOut, hist>>

sendEntries_(p) ==
    /\ pc[p] = "send"
    /\ LET q == thePeer(p)
           values == entriesFor(p, q)
       IN /\ valuesSendBuff' = [valuesSendBuff EXCEPT ![p][q] = values]
          /\ chan' = [chan EXCEPT ![<<p, q>>] = Append(@, values)]
    /\ Advance(p, "recv")
    /\ UNCHANGED <<overlap, overlap_, numIndicesSendBuff,
                   x, indicesSendBuff, indicesRecvBuff, valuesRecvBuff,
                   op, callNo, script, nativeOut, hist>>

\* values.receive(peerRank) followed by the merge loop `merged`
Receive(p, q, merged) ==
    /\ pc[p] = "recv"
    /\ q = thePeer(p)
    /\ chan[<<q, p>>] # <<>>
    /\ valuesRecvBuff' = [valuesRecvBuff EXCEPT ![p][q] = Head(chan[<<q, p>>])]
    /\ chan' = [chan EXCEPT ![<<q, p>>] = Tail(@)]
    /\ x' = [x EXCEPT ![p] = merged]
    /\ Advance(p, "wait")
    /\ UNCHANGED <<overlap, overlap_, numIndicesSendBuff,
                   indicesSendBuff, indicesRecvBuff, valuesSendBuff,
                   op, callNo, script, nativeOut, hist>>

receiveFromMaster_(p) ==
    /\ op[p] \in {"sync", "assign"}
    /\ \E q \in Ranks :
          Receive(p, q, receiveFromMasterLoop(p, q, x[p], indicesRecvBuff[p][q],
                                              Head(chan[<<q, p>>]), 1))

receiveAddBorder_(p) ==
    /\ op[p] \in {"syncAddBorder", "assignAddBorder"}
    /\ \E q \in Ranks :
          Receive(p, q, receiveAddBorderLoop(p, q, x[p], indicesRecvBuff[p][q],
                                             Head(chan[<<q, p>>]), 1))

receiveAdd_(p) ==
    /\ op[p] = "syncAdd"
    /\ \E q \in Ranks :
          Receive(p, q, receiveAddLoop(p, q, x[p], indicesRecvBuff[p][q],
                                       Head(chan[<<q, p>>]), 1))

waitSendFinished_(p) ==
    /\ pc[p] = "wait"
    /\ pc' = [pc EXCEPT ![p] = "idle"]
    /\ op' = [op EXCEPT ![p] = "none"]
    /\ hist' = [hist EXCEPT ![p][Len(hist[p])] =
                   [@ EXCEPT !.post = x[p], !.returned = TRUE]]
    /\ UNCHANGED <<overlap, overlap_, numIndicesSendBuff,
                   x, indicesSendBuff, indicesRecvBuff, valuesSendBuff,
                   valuesRecvBuff, chan, peerIt, callNo, script, nativeOut>>

Next ==
    /\ UNCHANGED <<sendPending, copyVars, ctxVars>>
    /\ \E p \in Ranks :
        \/ sync(p)
        \/ syncAdd(p)
        \/ syncAddBorder(p)
        \/ assign(p)
        \/ assignAddBorder(p)
        \/ assignTo(p)
        \/ sendEntries_(p)
        \/ receiveFromMaster_(p)
        \/ receiveAddBorder_(p)
        \/ receiveAdd_(p)
        \/ waitSendFinished_(p)

Spec == Init /\ [][Next]_vars

\* the steps of process p
Step(p) ==
    \/ sync(p)
    \/ syncAdd(p)
    \/ syncAddBorder(p)
    \/ assign(p)
    \/ assignAddBorder(p)
    \/ assignTo(p)
    \/ sendEntries_(p)
    \/ receiveFromMaster_(p)
    \/ receiveAddBorder_(p)
    \/ receiveAdd_(p)
    \/ waitSendFinished_(p)

\* Which steps are possible never depends on the values of the blocks, so
\* the fair specification follows the calls on vectors of zero blocks only.
ZeroBlocks ==
    \A p \in Ranks :
        /\ \A i \in DOMAIN x[p] : x[p][i] = 0
        /\ \A k \in DOMAIN hist[p] : \A i \in DOMAIN hist[p][k].arg : hist[p][k].arg[i] = 0

InitZero ==
    /\ Init
    /\ \A p \in Ranks : \A i \in DOMAIN x[p] : x[p][i] = 0

NextZero == Next /\ ZeroBlocks'

\* every process is scheduled: a process that can take a step, and stays
\* able to, eventually takes one (a blocking receive returns once the
\* message is there, and a process goes on to the next call of its program)
FairSpec ==
    /\ InitZero
    /\ [][NextZero]_vars
    /\ \A p \in Ranks :
           WF_vars(/\ Step(p)
                   /\ ZeroBlocks'
                   /\ UNCHANGED <<sendPending, copyVars, ctxVars>>)

-----------------------------------------------------------------------------
(* Construction: OverlappingBlockVector(overlap) runs createBuffers_, the   *)
(* handshake in which every process tells every peer which global rows it   *)
(* will send.  The descriptors of the processes are built independently,    *)
(* so they may disagree about a row.                                        *)

\* rank 0 lists row 5 in its foreign overlap for rank 1, but the descriptor
\* of rank 1 has no domestic row 5
TopoBroken == [TopoPair EXCEPT !.dom = [@ EXCEPT ![1] = <<7, 8>>]]

CtorTopologies == Topologies \cup {TopoBroken}

\* MpiBuffer::receive into a buffer of n elements
received(n, msg) == [i \in 1 .. n |-> IF i <= Len(msg) THEN msg[i] ELSE 0]

InitCtor ==
    /\ overlap \in CtorTopologies
    /\ overlap_ = [p \in Ranks |-> "descriptor"]
    /\ numIndicesSendBuff = NoSends
    /\ x \in [Ranks -> UNION {[1 .. n -> Vals] : n \in 0 .. 3}]
    /\ \A p \in Ranks : Len(x[p]) = numDomestic(p)
    /\ indicesSendBuff = NoSends
    /\ indicesRecvBuff = NoSends
    /\ valuesSendBuff = NoSends
    /\ valuesRecvBuff = NoSends
    /\ chan = [c \in Ranks \X Ranks |-> <<>>]
    /\ pc = [p \in Ranks |-> IF p \in overlap.procs /\ PeerSeq(p) # <<>>
                             THEN "ctorSend" ELSE "idle"]
    /\ peerIt = [p \in Ranks |-> 1]
    /\ op = [p \in Ranks |-> "none"]
    /\ callNo = [p \in Ranks |-> 0]
    /\ script = <<>>
    /\ nativeOut = [p \in Ranks |-> <<>>]
    /\ hist = [p \in Ranks |-> <<>>]
    /\ sendPending = {}
    /\ NoCopies
    /\ NoContext

\* a first loop that sends the index list ahead of its count
createBuffersSendListFirst_(p) ==
    /\ pc[p] = "ctorSend"
    /\ LET peerRank == thePeer(p)
           numEntries == CountBuf(p, peerRank)
           indices == GlobalIndicesFor(p, peerRank)
       IN /\ numIndicesSendBuff' = [numIndicesSendBuff EXCEPT ![p][peerRank] = numEntries]
          /\ indicesSendBuff' = [indicesSendBuff EXCEPT ![p][peerRank] = indices]
          /\ valuesSendBuff' = [valuesSendBuff EXCEPT ![p][peerRank] = ZeroBuf(Len(indices))]
          /\ chan' = [chan EXCEPT ![<<p, peerRank>>] = @ \o <<indices, numEntries>>]
          /\ sendPending' = sendPending \cup {<<p, peerRank, "numIndices">>,
                                               <<p, peerRank, "indices">>}
    /\ Advance(p, "ctorRecvSize")
    /\ UNCHANGED <<overlap, overlap_, x, indicesRecvBuff, valuesRecvBuff, op,
                   callNo, script, nativeOut, hist>>

\* one pass of the first loop: allocate the send buffers for the peer, fill
\* in the global indices, send the count and then the indices
createBuffersSend_(p) ==
    /\ pc[p] = "ctorSend"
    /\ LET peerRank == thePeer(p)
           numEntries == CountBuf(p, peerRank)
           indices == GlobalIndicesFor(p, peerRank)
       IN /\ numIndicesSendBuff' = [numIndicesSendBuff EXCEPT ![p][peerRank] = numEntries]
          /\ indicesSendBuff' = [indicesSendBuff EXCEPT ![p][peerRank] = indices]
          /\ valuesSendBuff' = [valuesSendBuff EXCEPT ![p][peerRank] = ZeroBuf(Len(indices))]
          /\ chan' = [chan EXCEPT ![<<p, peerRank>>] = @ \o <<numEntries, indices>>]
          /\ sendPending' = sendPending \cup {<<p, peerRank, "numIndices">>,
                                               <<p, peerRank, "indices">>}
    /\ Advance(p, "ctorRecvSize")
    /\ UNCHANGED <<overlap, overlap_, x, indicesRecvBuff, valuesRecvBuff, op,
                   callNo, script, nativeOut, hist>>

\* second loop, first half: receive the count and allocate the receive buffers
createBuffersReceiveSize_(p) ==
    /\ pc[p] = "ctorRecvSize"
    /\ LET peerRank == thePeer(p)
       IN /\ chan[<<peerRank, p>>] # <<>>
          /\ LET numRows == received(1, Head(chan[<<peerRank, p>>]))[1]
             IN /\ indicesRecvBuff' = [indicesRecvBuff EXCEPT ![p][peerRank] = ZeroBuf(numRows)]
                /\ valuesRecvBuff' = [valuesRecvBuff EXCEPT ![p][peerRank] = ZeroBuf(numRows)]
          /\ chan' = [chan EXCEPT ![<<peerRank, p>>] = Tail(@)]
    /\ pc' = [pc EXCEPT ![p] = "ctorRecvIndices"]
    /\ UNCHANGED <<overlap, overlap_, numIndicesSendBuff, x, indicesSendBuff,
                   valuesSendBuff, peerIt, op, callNo, script, nativeOut, hist,
                   sendPending>>

\* second loop, second half: receive the indices and make them domestic
createBuffersReceiveIndices_(p) ==
    /\ pc[p] = "ctorRecvIndices"
    /\ LET peerRank == thePeer(p)
       IN /\ chan[<<peerRank, p>>] # <<>>
          /\ LET numRows == Len(indicesRecvBuff[p][peerRank])
                 globals == received(numRows, Head(chan[<<peerRank, p>>]))
             IN indicesRecvBuff' = [indicesRecvBuff EXCEPT ![p][peerRank] =
                    [i \in 1 .. numRows |-> globalToDomestic(p, globals[i])]]
          /\ chan' = [chan EXCEPT ![<<peerRank, p>>] = Tail(@)]
    /\ IF peerIt[p] < Len(PeerSeq(p))
       THEN /\ peerIt' = [peerIt EXCEPT ![p] = @ + 1]
            /\ pc' = [pc EXCEPT ![p] = "ctorRecvSize"]
       ELSE /\ peerIt' = [peerIt EXCEPT ![p] = 1]
            /\ pc' = [pc EXCEPT ![p] = "ctorWait"]
    /\ UNCHANGED <<overlap, overlap_, numIndicesSendBuff, x, indicesSendBuff,
                   valuesSendBuff, valuesRecvBuff, op, callNo, script,
                   nativeOut, hist, sendPending>>

\* one pass of the third loop: wait() on the count buffer and on the index
\* buffer of the peer returns once both sends are complete; then convert
\* the indices of the send buffer to domestic ones
createBuffersWait_(p) ==
    /\ pc[p] = "ctorWait"
    /\ LET peerRank == thePeer(p)
           globals == indicesSendBuff[p][peerRank]
       IN /\ <<p, peerRank, "numIndices">> \notin sendPending
          /\ <<p, peerRank, "indices">> \notin sendPending
          /\ indicesSendBuff' = [indicesSendBuff EXCEPT ![p][peerRank] =
                 [i \in 1 .. Len(globals) |-> globalToDomestic(p, globals[i])]]
    /\ Advance(p, "idle")
    /\ UNCHANGED <<overlap, overlap_, numIndicesSendBuff, x, indicesRecvBuff,
                   valuesSendBuff, valuesRecvBuff, chan, op, callNo, script,
                   nativeOut, hist, sendPending>>

\* the transport completes a non-blocking send: from now on wait() on its
\* buffer returns.  A send may complete as soon as it is posted (the
\* transport has copied the message) or only after the message was received;
\* the sender cannot tell the difference before it calls wait() on the
\* buffer, so the model lets the send complete while the sender waits for it.
sendCompletes(m) ==
    /\ m \in sendPending
    /\ \/ pc[m[1]] = "ctorWait" /\ thePeer(m[1]) = m[2]
       \/ pc[m[1]] = "wait"
    /\ sendPending' = sendPending \ {m}
    /\ UNCHANGED <<overlap, overlap_, numIndicesSendBuff, x, indicesSendBuff,
                   indicesRecvBuff, valuesSendBuff, valuesRecvBuff, chan, pc,
                   peerIt, op, callNo, script, nativeOut, hist>>

NextCtor ==
    /\ UNCHANGED <<copyVars, ctxVars>>
    /\ \/ \E p \in Ranks :
              \/ createBuffersSend_(p)
              \/ createBuffersReceiveSize_(p)
              \/ createBuffersReceiveIndices_(p)
              \/ createBuffersWait_(p)
       \/ \E m \in sendPending : sendCompletes(m)

SpecCtor == InitCtor /\ [][NextCtor]_vars

\* the steps of the constructor of process p
createBuffers_(p) ==
    \/ createBuffersSend_(p)
    \/ createBuffersReceiveSize_(p)
    \/ createBuffersReceiveIndices_(p)
    \/ createBuffersWait_(p)

\* the message of pending send m has been taken out of the channel by its
\* receiver: towards each peer the count goes first, the index list second
Delivered(m) ==
    IF m[3] = "numIndices"
    THEN Len(chan[<<m[1], m[2]>>]) <= 1
    ELSE chan[<<m[1], m[2]>>] = <<>>

\* the blocks play no part in the handshake: the fair specification
\* follows the construction of vectors of zero blocks
InitCtorZero ==
    /\ InitCtor
    /\ \A p \in Ranks : \A i \in DOMAIN x[p] : x[p][i] = 0

\* every constructing process is scheduled, and the transport completes a
\* send at the latest once its message has been received (it need not
\* buffer the message before)
FairCtor ==
    /\ InitCtorZero
    /\ [][NextCtor]_vars
    /\ \A p \in Ranks :
           WF_vars(createBuffers_(p) /\ UNCHANGED <<copyVars, ctxVars>>)
    /\ \A m \in Ranks \X Ranks \X {"numIndices", "indices"} :
           WF_vars(/\ Delivered(m)
                   /\ sendCompletes(m)
                   /\ UNCHANGED <<copyVars, ctxVars>>)

-----------------------------------------------------------------------------
(* Default construction: OverlappingBlockVector() builds an empty vector,   *)
(* creates no buffer and leaves the overlap_ pointer uninitialized.  Every  *)
(* public method starts by reading through overlap_, which is undefined     *)
(* behaviour on such a vector: the read faults, or it yields whatever the   *)
(* memory holds and the method runs on.                                     *)

InitDefault ==
    /\ overlap \in Topologies
    /\ overlap_ = [p \in Ranks |-> "indeterminate"]
    /\ numIndicesSendBuff = NoSends
    /\ x = NoRows
    /\ indicesSendBuff = NoSends
    /\ indicesRecvBuff = NoSends
    /\ valuesSendBuff = NoSends
    /\ valuesRecvBuff = NoSends
    /\ chan = [c \in Ranks \X Ranks |-> <<>>]
    /\ pc = [p \in Ranks |-> "idle"]
    /\ peerIt = [p \in Ranks |-> 1]
    /\ op = [p \in Ranks |-> "none"]
    /\ callNo = [p \in Ranks |-> 0]
    /\ script = <<>>
    /\ nativeOut = [p \in Ranks |-> <<>>]
    /\ hist = [p \in Ranks |-> <<>>]
    /\ sendPending = {}
    /\ NoCopies
    /\ NoContext

\* method o on a default-constructed vector; the outcome is whether the
\* method came back to its caller
callOnDefaultConstructed(p, o, cameBack) ==
    /\ Enter(p, o)
    /\ overlap_[p] = "indeterminate"
    /\ pc' = [pc EXCEPT ![p] = IF cameBack THEN "idle" ELSE "failed"]
    /\ hist' = [hist EXCEPT ![p] =
                   Append(@, [op |-> o, arg |-> <<>>, pre |-> x[p], post |-> x[p],
                              out |-> <<>>, returned |-> cameBack])]
    /\ UNCHANGED <<overlap, overlap_, numIndicesSendBuff, x, indicesSendBuff,
                   indicesRecvBuff, valuesSendBuff, valuesRecvBuff, chan,
                   peerIt, op, nativeOut>>

\* the read through overlap_ faults and the process dies
derefFaults(p) == \E o \in Ops : callOnDefaultConstructed(p, o, FALSE)

\* the read yields a stale or empty descriptor and the method runs to its end
derefReadsGarbage(p) == \E o \in Ops : callOnDefaultConstructed(p, o, TRUE)

NextDefault ==
    /\ UNCHANGED <<sendPending, copyVars, ctxVars>>
    /\ \E p \in Ranks : derefFaults(p) \/ derefReadsGarbage(p)

SpecDefault == InitDefault /\ [][NextDefault]_vars

-----------------------------------------------------------------------------
(* Transport failure: a blocking receive of a synchronization call fails    *)
(* and the error is propagated to the caller of the method.  Only the       *)
(* first failure of a run is followed, in the first call of the program.    *)

transportFailure(p) ==
    /\ pc[p] = "recv"
    /\ \A q \in Ranks : pc[q] # "failed"
    /\ pc' = [pc EXCEPT ![p] = "failed"]
    /\ UNCHANGED <<overlap, overlap_, numIndicesSendBuff, x, indicesSendBuff,
                   indicesRecvBuff, valuesSendBuff, valuesRecvBuff, chan,
                   peerIt, op, callNo, script, nativeOut, hist>>

FirstCall == \A p \in Ranks : callNo[p] <= 1

NextFail ==
    \/ Next /\ FirstCall'
    \/ /\ UNCHANGED <<sendPending, copyVars, ctxVars>>
       /\ \E p \in Ranks : transportFailure(p)

SpecFail == Init /\ [][NextFail]_vars

-----------------------------------------------------------------------------
(* Pending sends of the synchronization calls.  Spec lets wait() return at  *)
(* once, as if every send completed when it was posted.  SpecWait follows   *)
(* the sends of sendEntries_ until the transport completes them, on vectors *)
(* of zero blocks (the blocks play no part in when a send completes).       *)

\* sendEntries_ with its non-blocking send recorded as pending
sendEntriesPending_(p) ==
    /\ sendEntries_(p)
    /\ \E peerRank \in peerSet(p) :
           /\ peerRank = thePeer(p)
           /\ sendPending' = sendPending \cup {<<p, peerRank, "values">>}

\* a last loop that goes through the peers without wait()
waitSendFinishedNoWait_(p) ==
    /\ waitSendFinished_(p)
    /\ UNCHANGED sendPending

\* the loop of waitSendFinished_: wait() on the value send buffer of each
\* peer returns once the send from it is complete
waitSendFinishedPending_(p) ==
    /\ \A m \in sendPending : m[1] # p
    /\ waitSendFinished_(p)
    /\ UNCHANGED sendPending

NextWait ==
    /\ UNCHANGED <<copyVars, ctxVars>>
    /\ \/ \E p \in Ranks :
              \/ sendEntriesPending_(p)
              \/ waitSendFinishedPending_(p)
              \/ /\ UNCHANGED sendPending
                 /\ \/ sync(p)
                    \/ syncAdd(p)
                    \/ syncAddBorder(p)
                    \/ assign(p)
                    \/ assignAddBorder(p)
                    \/ assignTo(p)
                    \/ receiveFromMaster_(p)
                    \/ receiveAddBorder_(p)
                    \/ receiveAdd_(p)
       \/ \E m \in sendPending : sendCompletes(m)
    /\ ZeroBlocks'

SpecWait == InitZero /\ [][NextWait]_vars

-----------------------------------------------------------------------------
(* Copies.  Two vector objects a and b of one process.  The five buffer     *)
(* maps hold shared pointers: copying a map copies the pointers, not the    *)
(* buffers.  heap[w] are the value send buffers that the constructor of w   *)
(* allocated; inst[v].bufs names the buffers the maps of v point to.        *)

Vecs == {"a", "b"}

\* the process that holds the two vectors
Holder == CHOOSE p \in overlap.procs : \A q \in overlap.procs : p <= q

\* the buffers createBuffers_ allocates, one per peer
FreshBuffers == [q \in Ranks |-> ZeroBuf(Len(SendPlan(Holder, q)))]

\* vector a was constructed from the descriptor; b does not exist yet, or
\* was default-constructed, or was constructed from the descriptor as well
InitCopy ==
    /\ overlap \in Topologies
    /\ overlap_ = [p \in Ranks |-> "descriptor"]
    /\ numIndicesSendBuff = NoSends
    /\ x = NoRows
    /\ indicesSendBuff = NoSends
    /\ indicesRecvBuff = NoSends
    /\ valuesSendBuff = NoSends
    /\ valuesRecvBuff = NoSends
    /\ chan = [c \in Ranks \X Ranks |-> <<>>]
    /\ pc = [p \in Ranks |-> "idle"]
    /\ peerIt = [p \in Ranks |-> 1]
    /\ op = [p \in Ranks |-> "none"]
    /\ callNo = [p \in Ranks |-> 0]
    /\ script = <<>>
    /\ nativeOut = [p \in Ranks |-> <<>>]
    /\ hist = [p \in Ranks |-> <<>>]
    /\ sendPending = {}
    /\ NoContext
    /\ \E ra \in [1 .. numDomestic(Holder) -> Vals] :
       \E made \in {"no", "default", "descriptor"} :
           /\ inst = [v \in Vecs |->
                         IF v = "a" \/ made = "descriptor"
                         THEN [rows |-> ra, bufs |-> v, alive |-> TRUE]
                         ELSE [rows |-> <<>>, bufs |-> "none",
                               alive |-> made = "default"]]
           /\ heap = [w \in Vecs |->
                         IF w = "a" \/ made = "descriptor"
                         THEN FreshBuffers ELSE [q \in Ranks |-> <<>>]]
    /\ access = <<>>

\* OverlappingBlockVector(const OverlappingBlockVector &obv): the new vector
\* gets the rows and the five maps of obv, that is, pointers to its buffers
copyConstruct(dst, src) ==
    /\ dst # src
    /\ ~inst[dst].alive /\ inst[src].alive
    /\ inst' = [inst EXCEPT ![dst] = [rows |-> inst[src].rows,
                                      bufs |-> inst[src].bufs,
                                      alive |-> TRUE]]
    /\ UNCHANGED <<heap, access>>

\* operator=(const OverlappingBlockVector &obv): rows and maps are assigned
operatorAssign(dst, src) ==
    /\ dst # src
    /\ inst[dst].alive /\ inst[src].alive
    /\ inst' = [inst EXCEPT ![dst] = [rows |-> inst[src].rows,
                                      bufs |-> inst[src].bufs,
                                      alive |-> TRUE]]
    /\ UNCHANGED <<heap, access>>

\* the caller writes a row of vector v (operator[] of the block vector)
writeRow(v) ==
    /\ inst[v].alive
    /\ \E d \in 1 .. Len(inst[v].rows) : \E val \in Vals :
           /\ inst[v].rows[d] # val
           /\ inst' = [inst EXCEPT ![v].rows[d] = val]
    /\ UNCHANGED <<heap, access>>

\* sendEntries_ of a synchronization call on vector v, for one peer: the
\* rows of the plan are copied into the buffer valuesSendBuff_[peer] points to
sendEntriesOf_(v) ==
    /\ inst[v].alive /\ inst[v].bufs # "none"
    /\ \E peerRank \in peerSet(Holder) :
           LET plan == SendPlan(Holder, peerRank)
               values == [i \in 1 .. Len(plan) |-> inst[v].rows[plan[i] + 1]]
           IN /\ heap' = [heap EXCEPT ![inst[v].bufs][peerRank] = values]
              /\ access' = [by |-> v, of |-> inst[v].bufs, peer |-> peerRank]
    /\ UNCHANGED inst

NextCopy ==
    /\ UNCHANGED <<overlap, overlap_, numIndicesSendBuff, x, indicesSendBuff,
                   indicesRecvBuff, valuesSendBuff, valuesRecvBuff, chan, pc,
                   peerIt, op, callNo, script, nativeOut, hist, sendPending,
                   ctxVars>>
    /\ \E v \in Vecs :
           \/ \E src \in Vecs : copyConstruct(v, src)
           \/ \E src \in Vecs : operatorAssign(v, src)
           \/ writeRow(v)
           \/ sendEntriesOf_(v)

SpecCopy == InitCopy /\ [][NextCopy]_vars

-----------------------------------------------------------------------------
(* FvBaseElementContext: the primary variables and intensive quantities of  *)
(* the degrees of freedom of one element, and the one-slot snapshot used    *)
(* for the evaluation point.  What IntensiveQuantities::update and          *)
(* updateScvGradients compute, and the global solution, lie outside the     *)
(* class: an updated quantity may take any value.                           *)

NumDof == 2

timeDiscHistorySize == 2

Dofs == 0 .. NumDof - 1

TimeIdxs == 0 .. timeDiscHistorySize - 1

\* dofVars_ after updateStencil(): one DofStore_ per degree of freedom
DofVarsVector ==
    [Dofs -> [priVars : [TimeIdxs -> Vals],
              intensiveQuantities : [TimeIdxs -> Vals]]]

intensiveQuantities(dofIdx, timeIdx) ==
    dofVars[dofIdx].intensiveQuantities[timeIdx]

primaryVars(dofIdx, timeIdx) == dofVars[dofIdx].priVars[timeIdx]

\* an evaluation point that ignores the snapshot
evalPointAlwaysLive(dofIdx, timeIdx) == intensiveQuantities(dofIdx, timeIdx)

evalPointIntensiveQuantities(dofIdx, timeIdx) ==
    IF timeIdx # 0
    THEN intensiveQuantities(dofIdx, timeIdx)
    ELSE IF dofIdxSaved = dofIdx
         THEN intensiveQuantitiesSaved
         ELSE intensiveQuantities(dofIdx, 0)

\* ctxLog after a call: the method, its dof argument, and the last save
Logged(method, dofIdx, marked, saveDof, savePv, saveIq) ==
    [op |-> method, dof |-> dofIdx, marked |-> marked, saveDof |-> saveDof,
     savePv |-> savePv, saveIq |-> saveIq]

\* the context after its constructor and updateStencil(): dofVars_ has its
\* size, the constructor initializes none of dofIdxSaved_,
\* intensiveQuantitiesSaved_ and priVarsSaved_ (NumDof stands for any
\* value of dofIdxSaved_ that is no degree of freedom and not -1)
InitContext ==
    /\ overlap = TopoSingle
    /\ overlap_ = [p \in Ranks |-> "descriptor"]
    /\ numIndicesSendBuff = NoSends
    /\ x = NoRows
    /\ indicesSendBuff = NoSends
    /\ indicesRecvBuff = NoSends
    /\ valuesSendBuff = NoSends
    /\ valuesRecvBuff = NoSends
    /\ chan = [c \in Ranks \X Ranks |-> <<>>]
    /\ pc = [p \in Ranks |-> "idle"]
    /\ peerIt = [p \in Ranks |-> 1]
    /\ op = [p \in Ranks |-> "none"]
    /\ callNo = [p \in Ranks |-> 0]
    /\ script = <<>>
    /\ nativeOut = [p \in Ranks |-> <<>>]
    /\ hist = [p \in Ranks |-> <<>>]
    /\ sendPending = {}
    /\ NoCopies
    /\ dofVars \in DofVarsVector
    /\ dofIdxSaved \in {NoIdx} \cup Dofs \cup {NumDof}
    /\ intensiveQuantitiesSaved \in Vals
    /\ priVarsSaved \in Vals
    /\ ctxLog = Logged("updateStencil", NoIdx, NoIdx, NoIdx, 0, 0)

\* updateIntensiveQuantities(timeIdx): priVars of every dof from the global
\* solution, intensive quantities computed or taken from the cache, then
\* the gradients of every dof
updateIntensiveQuantities(timeIdx) ==
    /\ \E volSol \in [Dofs -> Vals] : \E quants \in [Dofs -> Vals] :
           dofVars' = [d \in Dofs |->
               [priVars |-> [dofVars[d].priVars EXCEPT ![timeIdx] = volSol[d]],
                intensiveQuantities |->
                    [dofVars[d].intensiveQuantities EXCEPT ![timeIdx] = quants[d]]]]
    /\ ctxLog' = [ctxLog EXCEPT !.op = "updateIntensiveQuantities", !.dof = NoIdx]
    /\ UNCHANGED <<dofIdxSaved, intensiveQuantitiesSaved, priVarsSaved>>

\* updateAllIntensiveQuantities(): the same for every time index, then
\* dofIdxSaved_ = -1
updateAllIntensiveQuantities ==
    /\ dofVars' \in DofVarsVector
    /\ dofIdxSaved' = NoIdx
    /\ ctxLog' = [ctxLog EXCEPT !.op = "updateAllIntensiveQuantities",
                                !.dof = NoIdx, !.marked = NoIdx]
    /\ UNCHANGED <<intensiveQuantitiesSaved, priVarsSaved>>

\* updateIntensiveQuantities(priVars, dofIdx, timeIdx): updateSingleIntQuants_
\* stores priVars and recomputes the quantities of dofIdx, then the
\* gradients of all dofs are recomputed for timeIdx
updateIntensiveQuantitiesOfDof(priVars, dofIdx, timeIdx) ==
    /\ \E quants \in [Dofs -> Vals] :
           dofVars' = [d \in Dofs |->
               [priVars |-> IF d = dofIdx
                            THEN [dofVars[d].priVars EXCEPT ![timeIdx] = priVars]
                            ELSE dofVars[d].priVars,
                intensiveQuantities |->
                    [dofVars[d].intensiveQuantities EXCEPT ![timeIdx] = quants[d]]]]
    /\ ctxLog' = [ctxLog EXCEPT !.op = "updateIntensiveQuantitiesOfDof", !.dof = dofIdx]
    /\ UNCHANGED <<dofIdxSaved, intensiveQuantitiesSaved, priVarsSaved>>

saveIntensiveQuantities(dofIdx) ==
    /\ dofIdxSaved' = dofIdx
    /\ intensiveQuantitiesSaved' = dofVars[dofIdx].intensiveQuantities[0]
    /\ priVarsSaved' = dofVars[dofIdx].priVars[0]
    /\ ctxLog' = Logged("saveIntensiveQuantities", dofIdx, dofIdx, dofIdx,
                        primaryVars(dofIdx, 0), intensiveQuantities(dofIdx, 0))
    /\ UNCHANGED dofVars

restoreIntensiveQuantities(dofIdx) ==
    /\ dofIdxSaved' = NoIdx
    /\ dofVars' = [dofVars EXCEPT ![dofIdx].priVars[0] = priVarsSaved,
                                  ![dofIdx].intensiveQuantities[0] = intensiveQuantitiesSaved]
    /\ ctxLog' = [ctxLog EXCEPT !.op = "restoreIntensiveQuantities",
                                !.dof = dofIdx, !.marked = NoIdx]
    /\ UNCHANGED <<intensiveQuantitiesSaved, priVarsSaved>>

NextContext ==
    /\ UNCHANGED <<overlap, overlap_, numIndicesSendBuff, x, indicesSendBuff,
                   indicesRecvBuff, valuesSendBuff, valuesRecvBuff, chan, pc,
                   peerIt, op, callNo, script, nativeOut, hist, sendPending,
                   copyVars>>
    /\ \/ updateAllIntensiveQuantities
       \/ \E timeIdx \in TimeIdxs : updateIntensiveQuantities(timeIdx)
       \/ \E priVars \in Vals : \E dofIdx \in Dofs : \E timeIdx \in TimeIdxs :
              updateIntensiveQuantitiesOfDof(priVars, dofIdx, timeIdx)
       \/ \E dofIdx \in Dofs : saveIntensiveQuantities(dofIdx)
       \/ \E dofIdx \in Dofs : restoreIntensiveQuantities(dofIdx)

SpecContext == InitContext /\ [][NextContext]_vars

-----------------------------------------------------------------------------
(* Vocabulary of the properties. *)

Procs == overlap.procs

Rows(p) == 0 .. numDomestic(p) - 1

\* the k-th call of the program is one of the methods in ms
CallIs(k, ms) == k <= Len(script) /\ script[k] \in ms

Returned(p, k) == Len(hist[p]) >= k /\ hist[p][k].returned

AllReturned(k) == \A p \in Procs : Returned(p, k)

\* the domestic index, on the master of p's row d, of the same global row
MasterIdx(p, d) == globalToDomestic(masterRank(p, d), domesticToGlobal(p, d))

\* the value the master of p's row d held when it entered its k-th call
MasterPre(p, d, k) == hist[masterRank(p, d)][k].pre[MasterIdx(p, d) + 1]

\* p's row d is a border row of p
IsBorderRow(p, d) == \E q \in Ranks : isBorderWith(p, d, q)

\* the step is p consuming the oldest message of q
Receives(p, q) == chan[<<q, p>>] # <<>> /\ chan'[<<q, p>>] = Tail(chan[<<q, p>>])

\* the receive positions of p for q that refer to row d
Positions(p, q, d) == {j \in 1 .. Len(indicesRecvBuff[p][q]) : indicesRecvBuff[p][q][j] = d}

\* the values q copied into its k-th message for p
SentIn(q, p, k) ==
    [i \in 1 .. Len(indicesSendBuff[q][p]) |->
        hist[q][k].pre[indicesSendBuff[q][p][i] + 1]]

RECURSIVE SumAt(_, _, _, _)
SumAt(idx, values, d, j) ==
    IF j > Len(idx) THEN 0
    ELSE (IF idx[j] = d THEN values[j] ELSE 0) + SumAt(idx, values, d, j + 1)

RECURSIVE SumPeers(_, _, _, _)
SumPeers(p, d, k, S) ==
    IF S = {} THEN 0
    ELSE LET q == CHOOSE r \in S : TRUE
         IN SumAt(indicesRecvBuff[p][q], SentIn(q, p, k), d, 1)
            + SumPeers(p, d, k, S \ {q})

\* the processes that share p's border row d, p included
Sharers(p, d) == {p} \cup {q \in Ranks : isBorderWith(p, d, q)}

RECURSIVE SumContrib(_, _, _)
SumContrib(S, g, k) ==
    IF S = {} THEN 0
    ELSE LET s == CHOOSE r \in S : TRUE
         IN hist[s][k].pre[globalToDomestic(s, g) + 1] + SumContrib(S \ {s}, g, k)

-----------------------------------------------------------------------------
\* C1: owner consistency.  Once every process has returned from a sync()
\* call, every process's copy of every row equals the value that the row's
\* master rank held when it entered that call.
OwnerConsistency ==
    \A k \in 1 .. MaxCalls :
        (CallIs(k, {"sync"}) /\ AllReturned(k)) =>
            \A p \in Procs : \A d \in Rows(p) :
                hist[p][k].post[d + 1] = MasterPre(p, d, k)

\* a sync() in which rank 2 received row 7 from its master 0 and from the
\* non-master 1, the two copies differing, and its own copy was changed
OwnerConsistencyWitness ==
    /\ overlap = TopoShadow
    /\ CallIs(1, {"sync"}) /\ AllReturned(1)
    /\ hist[0][1].pre # hist[1][1].pre
    /\ hist[2][1].post # hist[2][1].pre

BorderRowsHoldSum ==
    \A k \in 1 .. MaxCalls :
        (CallIs(k, {"syncAddBorder", "assignAddBorder"}) /\ AllReturned(k)) =>
            \A p \in Procs : \A d \in Rows(p) :
                IsBorderRow(p, d) =>
                    hist[p][k].post[d + 1]
                        = SumContrib(Sharers(p, d), domesticToGlobal(p, d), k)

\* C4 (as claimed): once every process has returned from syncAddBorder() /
\* assignAddBorder(), every overlap row that is not a border row holds the
\* value of its master rank, however many non-master peers sent a copy.
NonBorderRowsFromMaster ==
    \A k \in 1 .. MaxCalls :
        (CallIs(k, {"syncAddBorder", "assignAddBorder"}) /\ AllReturned(k)) =>
            \A p \in Procs : \A d \in Rows(p) :
                (~isLocal(p, d) /\ ~IsBorderRow(p, d)) =>
                    hist[p][k].post[d + 1] = MasterPre(p, d, k)

\* C5: idempotence of sync().  A second sync() directly after a first leaves
\* every vector as the first one left it.
SyncIdempotent ==
    \A k \in 1 .. MaxCalls - 1 :
        (CallIs(k, {"sync"}) /\ CallIs(k + 1, {"sync"}) /\ AllReturned(k + 1)) =>
            \A p \in Procs : hist[p][k + 1].post = hist[p][k].post

\* two sync() calls in a row, the first of which changed a row
SyncIdempotentWitness ==
    /\ overlap = TopoShadow
    /\ CallIs(1, {"sync"}) /\ CallIs(2, {"sync"}) /\ AllReturned(2)
    /\ hist[0][1].pre # hist[1][1].pre
    /\ \E p \in Procs : hist[p][1].post # hist[p][1].pre

\* C6 (as claimed): round trip.  assign(V) followed by assignTo(W) yields
\* W = V at every native index.
RoundTripEverywhere ==
    \A p \in Procs : \A k \in 1 .. MaxCalls - 1 :
        (CallIs(k, {"assign"}) /\ CallIs(k + 1, {"assignTo"}) /\ Returned(p, k + 1)) =>
            hist[p][k + 1].out = hist[p][k].arg

\* C6 (amended): assign(V) followed by assignTo(W) yields W[n] = V[n] at
\* every native index n whose domestic row is mastered by the calling
\* process; where the domestic row is mastered by another rank W[n] is that
\* master's native value, and without domestic counterpart W[n] is zero.
RoundTripOnLocalRows ==
    \A p \in Procs : \A k \in 1 .. MaxCalls - 1 :
        (CallIs(k, {"assign"}) /\ CallIs(k + 1, {"assignTo"}) /\ Returned(p, k + 1)) =>
            /\ Len(hist[p][k + 1].out) = numNative(p)
            /\ \A n \in 0 .. numNative(p) - 1 :
                  LET d == nativeToDomestic(p, n)
                      m == masterRank(p, d)
                      mn == domesticToNative(m, MasterIdx(p, d))
                      w == hist[p][k + 1].out[n + 1]
                  IN IF d < 0 THEN w = 0
                     ELSE IF m = p THEN w = hist[p][k].arg[n + 1]
                     ELSE w = IF mn < 0 THEN 0 ELSE hist[m][k].arg[mn + 1]

\* assign(V); assignTo(W) on a process whose native rows are one mastered
\* by itself and one mastered by its peer, with V nonzero on both
RoundTripWitness ==
    /\ overlap = TopoPair
    /\ CallIs(1, {"assign"}) /\ CallIs(2, {"assignTo"}) /\ Returned(1, 2)
    /\ hist[1][1].arg = <<1, 1>>
    /\ hist[1][2].out = <<1, 0>>

\* C7: receive policy of sync().  When p merges the message of peer q, a row
\* at a receive index is overwritten with the incoming value if q is the
\* row's master rank; every other row is left as it was.
SyncReceivePolicy ==
    [][\A p \in Procs : \A q \in Ranks :
          (Receives(p, q) /\ op[p] \in {"sync", "assign"}) =>
              \A d \in Rows(p) :
                  IF masterRank(p, d) = q /\ Positions(p, q, d) # {}
                  THEN \E j \in Positions(p, q, d) :
                          x'[p][d + 1] = Head(chan[<<q, p>>])[j]
                  ELSE x'[p][d + 1] = x[p][d + 1]]_vars

\* rank 2 has merged, in a sync(), row 7 from its master 0 and from the
\* non-master 1, whose different copy was discarded
SyncReceivePolicyWitness ==
    /\ overlap = TopoShadow
    /\ op[2] = "sync" /\ pc[2] = "wait"
    /\ valuesRecvBuff[2][0] = <<0>> /\ valuesRecvBuff[2][1] = <<1>>
    /\ hist[2][1].pre[2] = 1
    /\ x[2][2] = 0

SyncAddSums ==
    \A k \in 1 .. MaxCalls :
        (CallIs(k, {"syncAdd"}) /\ AllReturned(k)) =>
            \A p \in Procs : \A d \in Rows(p) :
                hist[p][k].post[d + 1]
                    = hist[p][k].pre[d + 1] + SumPeers(p, d, k, peerSet(p))

\* a syncAdd() after which rank 1 holds, in its non-border overlap row 5,
\* its own 1 plus the 1 of rank 0, and rank 0's interior row 5 is unchanged
SyncAddSumsWitness ==
    /\ overlap = TopoPair
    /\ CallIs(1, {"syncAdd"}) /\ AllReturned(1)
    /\ ~IsBorderRow(1, 2)
    /\ hist[1][1].pre[3] = 1 /\ hist[0][1].pre[1] = 1
    /\ hist[1][1].post[3] = 2
    /\ hist[0][1].post[1] = 1

\* C10: assignTo(W) is a pure local projection.  It sets W to numNative()
\* rows, W[n] being the domestic row nativeToDomestic(n) or zero where there
\* is none, and changes neither a channel nor the rows, plans or buffers.
AssignToIsLocal ==
    [][\A p \in Procs :
          (callNo'[p] = callNo[p] + 1 /\ script'[callNo'[p]] = "assignTo") =>
              /\ Len(nativeOut'[p]) = numNative(p)
              /\ \A n \in 0 .. numNative(p) - 1 :
                    nativeOut'[p][n + 1] =
                        IF nativeToDomestic(p, n) >= 0
                        THEN x[p][nativeToDomestic(p, n) + 1]
                        ELSE 0
              /\ UNCHANGED <<x, chan, indicesSendBuff, indicesRecvBuff,
                             valuesSendBuff, valuesRecvBuff, pc>>]_vars

\* an assignTo() that copied two nonzero rows, out of domestic order, and
\* zero-filled the native row without domestic counterpart
AssignToIsLocalWitness ==
    /\ overlap = TopoSingle
    /\ CallIs(1, {"assignTo"}) /\ Returned(0, 1)
    /\ hist[0][1].pre = <<1, 1>>
    /\ nativeOut[0] = <<1, 0, 1>>

\* C11: the local copy step of assign(V) and assignAddBorder(V) is the same.
\* The step that enters either method sets every domestic row d to
\* V[domesticToNative(d)] where that index is non-negative and to zero
\* otherwise, whatever the rows held before, and it does so before any
\* message of the call is sent.
LocalCopyStep ==
    [][\A p \in Procs :
          (/\ callNo'[p] = callNo[p] + 1
           /\ script'[callNo'[p]] \in {"assign", "assignAddBorder"}) =>
              LET V == hist'[p][callNo'[p]].arg
              IN /\ Len(x'[p]) = numDomestic(p)
                 /\ \A d \in Rows(p) :
                       x'[p][d + 1] = IF domesticToNative(p, d) >= 0
                                      THEN V[domesticToNative(p, d) + 1]
                                      ELSE 0
                 /\ hist'[p][callNo'[p]].pre = x'[p]
                 /\ chan' = chan]_vars

\* rank 0 entered assignAddBorder(<<1, 0>>) as its second call: row 8, which
\* has no native index and held a nonzero value after the first call, is
\* zero, and rows 5 and 7 hold V[1] and V[0]
LocalCopyStepWitness ==
    /\ overlap = TopoPair
    /\ Len(hist[0]) = 2 /\ hist[0][2].op = "assignAddBorder"
    /\ pc[0] = "send" /\ peerIt[0] = 1
    /\ hist[0][1].post[3] = 1
    /\ hist[0][2].arg = <<1, 0>>
    /\ x[0] = <<0, 1, 0>>

\* C12: buffer-plan position correlation.  For every ordered pair of peers
\* (A, B) and every position i, the domestic row A sends at position i and
\* the domestic row into which B merges the value received at position i are
\* the same global row; this holds in every state, hence in every round.
PlanPositionsCorrelate ==
    \A a \in Procs : \A b \in peerSet(a) :
        /\ DOMAIN indicesSendBuff[a][b] = DOMAIN indicesRecvBuff[b][a]
        /\ \A i \in DOMAIN indicesSendBuff[a][b] :
              /\ indicesSendBuff[a][b][i] \in Rows(a)
              /\ indicesRecvBuff[b][a][i] \in Rows(b)
              /\ domesticToGlobal(a, indicesSendBuff[a][b][i])
                    = domesticToGlobal(b, indicesRecvBuff[b][a][i])

\* a completed sync() between two ranks whose plans name the common rows 5
\* and 7 by different domestic indices: rank 1 took row 5 (its index 2) from
\* position 1 of rank 0's message
PlanPositionsCorrelateWitness ==
    /\ overlap = TopoPair
    /\ indicesSendBuff[0][1] = <<0, 1>>
    /\ indicesRecvBuff[1][0] = <<2, 0>>
    /\ CallIs(1, {"sync"}) /\ AllReturned(1)
    /\ hist[0][1].pre[1] = 1 /\ hist[1][1].pre[3] = 0
    /\ hist[1][1].post[3] = 1

\* C14: on a process whose peer set is empty no message is ever sent to or
\* by it, sync(), syncAdd() and syncAddBorder() leave the rows as they were
\* at every point of the call, and assign(V) / assignAddBorder(V) leave
\* exactly the local copy of V.
EmptyPeerSetNoOp ==
    \A p \in Procs :
        peerSet(p) = {} =>
            /\ \A q \in Ranks : chan[<<p, q>>] = <<>> /\ chan[<<q, p>>] = <<>>
            /\ \A k \in 1 .. Len(hist[p]) :
                  LET h == hist[p][k]
                  IN /\ h.returned => h.post = h.pre
                     /\ k = Len(hist[p]) => x[p] = h.pre
                     /\ h.op \in {"assign", "assignAddBorder"} =>
                           \A d \in Rows(p) :
                               h.pre[d + 1] = IF domesticToNative(p, d) >= 0
                                              THEN h.arg[domesticToNative(p, d) + 1]
                                              ELSE 0

\* the single process returned from syncAdd() with its nonzero rows
\* unchanged and then from assign(<<1, 0, 0>>), which left the copy <<0, 1>>
EmptyPeerSetNoOpWitness ==
    /\ overlap = TopoSingle
    /\ script = <<"syncAdd", "assign">> /\ Returned(0, 2)
    /\ hist[0][1].pre = <<1, 1>> /\ hist[0][1].post = <<1, 1>>
    /\ hist[0][2].arg = <<1, 0, 0>>
    /\ x[0] = <<0, 1>>

\* C18: buffer plans are fixed after construction.  No step of any call
\* changes a send-index or receive-index list, or the size of a value send
\* or receive buffer.
PlansFixed ==
    [][/\ indicesSendBuff' = indicesSendBuff
       /\ indicesRecvBuff' = indicesRecvBuff
       /\ \A p, q \in Ranks :
             /\ Len(valuesSendBuff'[p][q]) = Len(valuesSendBuff[p][q])
             /\ Len(valuesRecvBuff'[p][q]) = Len(valuesRecvBuff[p][q])]_vars

\* two complete calls on two ranks, after which the value buffers of the
\* pair hold the values of the last round and the plans are those of Init
PlansFixedWitness ==
    /\ overlap = TopoPair
    /\ AllReturned(1) /\ AllReturned(2)
    /\ valuesSendBuff[0][1] = <<1, 1>> /\ valuesRecvBuff[1][0] = <<1, 1>>
    /\ indicesSendBuff[0][1] = <<0, 1>> /\ indicesRecvBuff[1][0] = <<2, 0>>

\* the orders in which the messages of the peers in S can be merged
MergeOrders(S) ==
    {s \in [1 .. Cardinality(S) -> S] :
        \A i, j \in 1 .. Cardinality(S) : i # j => s[i] # s[j]}

\* the rows of p after receiveAddBorder_ has merged, starting from xs, the
\* k-th messages of the peers in the given order
RECURSIVE MergeAddBorder(_, _, _, _)
MergeAddBorder(p, k, xs, order) ==
    IF order = <<>> THEN xs
    ELSE LET q == Head(order)
         IN MergeAddBorder(p, k,
                receiveAddBorderLoop(p, q, xs, indicesRecvBuff[p][q],
                                     SentIn(q, p, k), 1),
                Tail(order))

\* C20 (as claimed): order independence of syncAddBorder().  Once every
\* process has returned from syncAddBorder() / assignAddBorder(), the rows
\* of every process are what merging the peers' messages in any order
\* whatsoever would have produced, not only the ascending rank order used.
AddBorderOrderIndependent ==
    \A k \in 1 .. MaxCalls :
        (CallIs(k, {"syncAddBorder", "assignAddBorder"}) /\ AllReturned(k)) =>
            \A p \in Procs : \A order \in MergeOrders(peerSet(p)) :
                MergeAddBorder(p, k, hist[p][k].pre, order) = hist[p][k].post

\* every process has left its constructor
AllConstructed == \A p \in Procs : pc[p] = "idle"

\* C13: after construction on all processes, for every ordered pair of
\* peers (A, B) the send-index list A built for B, the receive-index list
\* and the value receive buffer B built for A, and A's value send buffer all
\* have the length foreignOverlapSize(B) of A.
PlanLengthsAgree ==
    AllConstructed =>
        \A a \in Procs : \A b \in peerSet(a) :
            /\ Len(indicesSendBuff[a][b]) = foreignOverlapSize(a, b)
            /\ Len(valuesSendBuff[a][b]) = foreignOverlapSize(a, b)
            /\ Len(indicesRecvBuff[b][a]) = foreignOverlapSize(a, b)
            /\ Len(valuesRecvBuff[b][a]) = foreignOverlapSize(a, b)

\* all three ranks are constructed; rank 0 sends one row to rank 2 and
\* rank 2 sends none to rank 0, and both sides agree on both lengths
PlanLengthsAgreeWitness ==
    /\ overlap = TopoShadow
    /\ AllConstructed
    /\ numIndicesSendBuff[0][2] = <<1>> /\ numIndicesSendBuff[2][0] = <<0>>
    /\ indicesSendBuff[0][2] = <<0>> /\ indicesRecvBuff[2][0] = <<1>>
    /\ indicesSendBuff[2][0] = <<>> /\ indicesRecvBuff[0][2] = <<>>

\* on descriptors that agree, construction ends in an initial state of Spec
ConstructionYieldsInit ==
    (AllConstructed /\ overlap \in Topologies) =>
        /\ indicesSendBuff = [p \in Ranks |-> [q \in Ranks |-> SendPlan(p, q)]]
        /\ indicesRecvBuff = [p \in Ranks |-> [q \in Ranks |-> RecvPlan(p, q)]]
        /\ numIndicesSendBuff = [p \in Ranks |-> [q \in Ranks |-> CountBuf(p, q)]]
        /\ \A p, q \in Ranks :
              /\ valuesSendBuff[p][q] = ZeroBuf(Len(SendPlan(p, q)))
              /\ valuesRecvBuff[p][q] = ZeroBuf(Len(RecvPlan(p, q)))
        /\ \A c \in Ranks \X Ranks : chan[c] = <<>>

\* C15 (as claimed): a global index received during construction that has
\* no domestic counterpart aborts the construction, so that no receive plan
\* ever holds a negative domestic index.
NoNegativeReceiveIndex ==
    \A p \in Procs : \A q \in Ranks :
        \A i \in DOMAIN indicesRecvBuff[p][q] : indicesRecvBuff[p][q][i] >= 0

\* C16 (as claimed): a method called on a default-constructed vector ends
\* in a fatal error: it never comes back to its caller as if it had worked.
MisuseDetected ==
    \A p \in Procs :
        overlap_[p] = "indeterminate" =>
            \A k \in 1 .. Len(hist[p]) : ~hist[p][k].returned /\ pc[p] = "failed"

\* the merge loop that method o runs on the message of peer q
ReceiveLoop(o, p, q, xs, values) ==
    IF o \in {"sync", "assign"}
    THEN receiveFromMasterLoop(p, q, xs, indicesRecvBuff[p][q], values, 1)
    ELSE IF o = "syncAdd"
         THEN receiveAddLoop(p, q, xs, indicesRecvBuff[p][q], values, 1)
         ELSE receiveAddBorderLoop(p, q, xs, indicesRecvBuff[p][q], values, 1)

\* the rows of p after its k-th call has merged, starting from xs, the
\* messages of the peers in the given order
RECURSIVE FullySynchronized(_, _, _, _)
FullySynchronized(p, k, xs, order) ==
    IF order = <<>> THEN xs
    ELSE FullySynchronized(p, k,
             ReceiveLoop(hist[p][k].op, p, Head(order), xs, SentIn(Head(order), p, k)),
             Tail(order))

\* C17 (as claimed): all-or-nothing per call.  When a synchronization call
\* has failed on a transport error while receiving, the rows of the vector
\* are all as they were when the call was entered, or all as the completed
\* call would have left them.
AllOrNothing ==
    \A p \in Procs :
        (pc[p] = "failed" /\ \A q \in peerSet(p) : Len(hist[q]) >= Len(hist[p])) =>
            LET k == Len(hist[p])
            IN \/ x[p] = hist[p][k].pre
               \/ x[p] = FullySynchronized(p, k, hist[p][k].pre, PeerSeq(p))

SyncOrderIndependent ==
    \A k \in 1 .. MaxCalls :
        (CallIs(k, {"sync", "assign"}) /\ AllReturned(k)) =>
            \A p \in Procs : \A order \in MergeOrders(peerSet(p)) :
                FullySynchronized(p, k, hist[p][k].pre, order) = hist[p][k].post

\* a sync() in which rank 2 received 1 for row 7 from the master 0 and then,
\* in ascending order last, 0 from the non-master 1, and holds 1
SyncOrderIndependentWitness ==
    /\ overlap = TopoShadow
    /\ CallIs(1, {"sync"}) /\ AllReturned(1)
    /\ hist[0][1].pre = <<1>> /\ hist[1][1].pre = <<0>>
    /\ hist[2][1].pre[2] = 0
    /\ hist[2][1].post[2] = 1

\* the step is p handing one more message for q to the transport
Sends(p, q) == Len(chan'[<<p, q>>]) = Len(chan[<<p, q>>]) + 1

\* the message that step hands over
Sent(p, q) == chan'[<<p, q>>][Len(chan'[<<p, q>>])]

SyncFamily == {"sync", "syncAdd", "syncAddBorder", "assign", "assignAddBorder"}

\* C24: the synchronization variants have an identical send phase.
\* Whatever the method, a send step goes to the peer the send loop has
\* reached, hands over the current values of the rows at that peer's send
\* indices, in plan order, and changes no row.
SendPhaseIdentical ==
    [][\A p \in Procs : \A q \in Ranks :
          Sends(p, q) =>
              /\ op[p] \in SyncFamily
              /\ q = thePeer(p)
              /\ Sent(p, q) = [i \in DOMAIN indicesSendBuff[p][q] |->
                                  x[p][indicesSendBuff[p][q][i] + 1]]
              /\ valuesSendBuff'[p][q] = Sent(p, q)
              /\ x' = x]_vars

\* rank 0 entered sync() and then syncAdd() with the same rows <<1, 0, 1>>;
\* both messages for rank 1 are still in the channel and are the same
SendPhaseIdenticalWitness ==
    /\ overlap = TopoPair
    /\ script = <<"sync", "syncAdd">>
    /\ Len(hist[0]) = 2
    /\ hist[0][1].pre = <<1, 0, 1>> /\ hist[0][2].pre = <<1, 0, 1>>
    /\ chan[<<0, 1>>] = << <<1, 0>>, <<1, 0>> >>

\* C25: in every synchronization call all sends precede the first receive.
\* Every message is made of the values the rows had when the call was
\* entered, and when a process takes a receive step the send buffer of every
\* peer already holds this call's message.
SendsBeforeReceives ==
    [][\A p \in Procs : \A q \in Ranks :
          /\ Sends(p, q) =>
                /\ x[p] = hist[p][callNo[p]].pre
                /\ Sent(p, q) = SentIn(p, q, callNo[p])
          /\ Receives(p, q) =>
                \A r \in peerSet(p) : valuesSendBuff[p][r] = SentIn(p, r, callNo[p])]_vars

\* rank 0 of three sent 0 to both peers in syncAdd() and has since merged
\* the 1 of rank 1: rank 2 is sent the pre-call 0, not the merged 1
SendsBeforeReceivesWitness ==
    /\ overlap = TopoTriple
    /\ CallIs(1, {"syncAdd"}) /\ callNo[0] = 1
    /\ hist[0][1].pre = <<0>> /\ x[0] = <<1>>
    /\ pc[0] = "recv" /\ peerIt[0] = 2
    /\ valuesSendBuff[0][2] = <<0>>

\* C26: round matching under per-pair FIFO.  Whatever the interleaving, the
\* message a process consumes from peer q in its k-th call is the message q
\* sent in its own k-th call, also when q has run ahead into a later call.
RoundsMatch ==
    [][\A p \in Procs : \A q \in Ranks :
          Receives(p, q) =>
              /\ Len(hist[q]) >= callNo[p]
              /\ hist[q][callNo[p]].op = hist[p][callNo[p]].op
              /\ Head(chan[<<q, p>>]) = SentIn(q, p, callNo[p])]_vars

\* rank 0 has run ahead: its second message <<1, 1>> is in the channel while
\* rank 1, still in its first call, has just taken the first message <<0, 0>>
RoundsMatchWitness ==
    /\ overlap = TopoPair
    /\ callNo[0] = 2 /\ callNo[1] = 1
    /\ pc[1] = "wait"
    /\ hist[0][1].pre[1] = 0 /\ hist[0][1].pre[2] = 0
    /\ hist[0][2].pre[1] = 1 /\ hist[0][2].pre[2] = 1
    /\ valuesRecvBuff[1][0] = <<0, 0>>
    /\ chan[<<0, 1>>] = << <<1, 1>> >>

\* C28: sync() never modifies a locally owned row.  At every point of a
\* sync() call and after it, every row whose master rank is the calling
\* process holds the value it had when the call was entered.
SyncKeepsLocalRows ==
    \A p \in Procs : \A k \in 1 .. Len(hist[p]) :
        hist[p][k].op = "sync" =>
            \A d \in Rows(p) :
                isLocal(p, d) =>
                    /\ hist[p][k].returned => hist[p][k].post[d + 1] = hist[p][k].pre[d + 1]
                    /\ k = Len(hist[p]) => x[p][d + 1] = hist[p][k].pre[d + 1]

\* rank 0 returned from sync() with its own border row 7 still 1 although
\* rank 1 sent 0 for that row, while its shadow row 8 was taken from rank 1
SyncKeepsLocalRowsWitness ==
    /\ overlap = TopoPair
    /\ CallIs(1, {"sync"}) /\ Returned(0, 1)
    /\ isLocal(0, 1) /\ ~isLocal(0, 2)
    /\ hist[0][1].pre = <<0, 1, 0>>
    /\ hist[1][1].pre[1] = 0 /\ hist[1][1].pre[2] = 1
    /\ hist[0][1].post = <<0, 1, 1>>

\* C22: the order of the construction handshake.  Towards each peer the
\* count is sent before the index list and equals the length of that list;
\* from each peer the count is received before the list, the list is
\* received into a buffer whose length is exactly the received count, the
\* received indices are translated only in the step that receives the list,
\* and the constructor returns only when none of its sends is pending.
HandshakeOrderStep ==
    \A p \in Procs : \A q \in peerSet(p) :
        /\ Len(chan'[<<p, q>>]) > Len(chan[<<p, q>>]) =>
               LET n == Len(chan[<<p, q>>])
               IN /\ Len(chan'[<<p, q>>]) = n + 2
                  /\ chan'[<<p, q>>][n + 1] = <<Len(chan'[<<p, q>>][n + 2])>>
                  /\ chan'[<<p, q>>][n + 2] = GlobalIndicesFor(p, q)
        /\ (Receives(p, q) /\ pc[p] = "ctorRecvSize") =>
               /\ Len(Head(chan[<<q, p>>])) = 1
               /\ Len(indicesRecvBuff'[p][q]) = Head(chan[<<q, p>>])[1]
               /\ indicesRecvBuff'[p][q] = ZeroBuf(Head(chan[<<q, p>>])[1])
        /\ (Receives(p, q) /\ pc[p] = "ctorRecvIndices") =>
               /\ Len(Head(chan[<<q, p>>])) = Len(indicesRecvBuff[p][q])
               /\ Len(indicesRecvBuff'[p][q]) = Len(indicesRecvBuff[p][q])
        /\ indicesRecvBuff'[p][q] # indicesRecvBuff[p][q] =>
               /\ Receives(p, q)
               /\ pc[p] = "ctorRecvSize" \/
                      indicesRecvBuff'[p][q] =
                          [i \in 1 .. Len(Head(chan[<<q, p>>])) |->
                              globalToDomestic(p, Head(chan[<<q, p>>])[i])]
        /\ (pc[p] # "idle" /\ pc'[p] = "idle") =>
               \A m \in sendPending' : m[1] # p

HandshakeOrder == [][HandshakeOrderStep]_vars

\* rank 2 has returned from its constructor with the row of rank 0
\* translated, while rank 0 still waits for the index list it sent to
\* rank 1 to complete, the count it sent to rank 1 being complete
HandshakeOrderWitness ==
    /\ overlap = TopoShadow
    /\ pc[2] = "idle" /\ indicesRecvBuff[2][0] = <<1>>
    /\ pc[0] = "ctorWait" /\ thePeer(0) = 1
    /\ <<0, 1, "indices">> \in sendPending
    /\ <<0, 1, "numIndices">> \notin sendPending
    /\ \A m \in sendPending : m[1] # 2

\* C29: when all processes of a topology construct their vectors
\* concurrently, every constructor returns, whatever the scheduling: each
\* process posts all its sends before its first receive, so every message a
\* process blocks on is eventually there, and every send it waits for is
\* eventually complete.
ConstructionTerminates == <>AllConstructed

\* all three ranks of the topology in which rank 2 sends to rank 1 only
\* have returned from their constructors, no send pending, no message left
ConstructionTerminatesWitness ==
    /\ overlap = TopoMixed
    /\ AllConstructed
    /\ sendPending = {}
    /\ \A c \in Ranks \X Ranks : chan[c] = <<>>
    /\ indicesSendBuff[2][1] # <<>> /\ indicesSendBuff[2][0] = <<>>
    /\ indicesRecvBuff[1][2] # <<>>

\* C27: a synchronization call returns only after every send it issued has
\* completed, so sendEntries_ never overwrites a value send buffer from
\* which a send of an earlier call is still pending.
SendsCompleteBeforeReturnStep ==
    \A p \in Procs :
        /\ (pc[p] # "idle" /\ pc'[p] = "idle") =>
               \A m \in sendPending' : m[1] # p
        /\ \A q \in Ranks :
               (Sends(p, q) \/ valuesSendBuff'[p][q] # valuesSendBuff[p][q]) =>
                   <<p, q, "values">> \notin sendPending

SendsCompleteBeforeReturn == [][SendsCompleteBeforeReturnStep]_vars

\* rank 0 is in its second call and has posted the send to rank 1 again,
\* which is pending, while rank 1 has not yet returned from the first call
SendsCompleteBeforeReturnWitness ==
    /\ overlap = TopoPair
    /\ callNo[0] = 2 /\ callNo[1] = 1
    /\ Returned(0, 1) /\ ~Returned(1, 1)
    /\ op[0] # "assignTo" /\ hist[0][1].op # "assignTo"
    /\ pc[0] = "recv"
    /\ <<0, 1, "values">> \in sendPending
    /\ Len(chan[<<0, 1>>]) = 1

\* C23: exclusive ownership.  Each vector owns its buffers: a
\* synchronization call on a vector, also after it was copy-constructed or
\* copy-assigned, reads and writes only buffers that belong to that vector
\* and never a buffer that belongs to the other one.
OwnBuffersOnly == access # <<>> => access.of = access.by

\* C30: the evaluation point of the element context.  While dof d is the
\* saved one (saveIntensiveQuantities(d) was called, and neither a restore
\* nor updateAllIntensiveQuantities() since), evalPointIntensiveQuantities(d, 0)
\* is the snapshot taken by that save, whatever happened to the live
\* quantities of d, and for any other dof and any timeIdx other than 0 it
\* is the live quantities.  After restoreIntensiveQuantities() and after
\* updateAllIntensiveQuantities() no dof is marked saved, and
\* restoreIntensiveQuantities(d) leaves the primary variables and the
\* intensive quantities of d at timeIdx 0 as they were at the save of d.
EvalPointSnapshot ==
    /\ ctxLog.marked \in Dofs =>
           /\ evalPointIntensiveQuantities(ctxLog.marked, 0) = ctxLog.saveIq
           /\ \A d \in Dofs : \A t \in TimeIdxs :
                  (d # ctxLog.marked \/ t # 0) =>
                      evalPointIntensiveQuantities(d, t) = intensiveQuantities(d, t)
    /\ ctxLog.op \in {"restoreIntensiveQuantities", "updateAllIntensiveQuantities"} =>
           /\ dofIdxSaved = NoIdx
           /\ \A d \in Dofs : \A t \in TimeIdxs :
                  evalPointIntensiveQuantities(d, t) = intensiveQuantities(d, t)
    /\ (ctxLog.op = "restoreIntensiveQuantities" /\ ctxLog.dof = ctxLog.saveDof) =>
           /\ primaryVars(ctxLog.dof, 0) = ctxLog.savePv
           /\ intensiveQuantities(ctxLog.dof, 0) = ctxLog.saveIq

\* dof 0 was saved with quantities 0 and then updated with new primary
\* variables: its live quantities are 1 now, the evaluation point still 0
EvalPointSnapshotWitness ==
    /\ ctxLog.op = "updateIntensiveQuantitiesOfDof" /\ ctxLog.dof = 0
    /\ ctxLog.marked = 0 /\ ctxLog.saveIq = 0 /\ ctxLog.savePv = 0
    /\ primaryVars(0, 0) = 1 /\ intensiveQuantities(0, 0) = 1
    /\ evalPointIntensiveQuantities(0, 0) = 0
    /\ evalPointIntensiveQuantities(1, 0) = intensiveQuantities(1, 0)

====
